---- MODULE Spec2Model ----
(***************************************************************************)
(* A model of the mail-extraction pipeline of Scripts/outlook_mapi.py      *)
(* (the same code is repeated at the head of Scripts/app.py).              *)
(*                                                                         *)
(* Python strings are modelled as sequences of one-character strings, so   *)
(* that substring search, regular-expression scanning and stripping are    *)
(* computed character by character as the code computes them.              *)
(***************************************************************************)
EXTENDS Integers, Sequences, FiniteSets, TLC

VARIABLES
    DEFAULT_SUBJECT_KEYWORDS,   \* module global, outlook_mapi.py:83
    DEFAULT_SUBJECT_PHRASES,    \* module global, outlook_mapi.py:84
    pc,                         \* position of the running call
    frame                       \* arguments, locals and return value of the running call

vars == <<DEFAULT_SUBJECT_KEYWORDS, DEFAULT_SUBJECT_PHRASES, pc, frame>>

(***************************************************************************)
(* Characters and strings                                                   *)
(***************************************************************************)

\* Python's None; no string equals it (every element of a string is one character).
None == <<"None">>

UpperLetters ==
    <<"A","B","C","D","E","F","G","H","I","J","K","L","M",
      "N","O","P","Q","R","S","T","U","V","W","X","Y","Z">>

LowerLetters ==
    <<"a","b","c","d","e","f","g","h","i","j","k","l","m",
      "n","o","p","q","r","s","t","u","v","w","x","y","z">>

Digits == {"0","1","2","3","4","5","6","7","8","9"}

\* The characters \s matches and str.strip() removes, among those of the model.
Whitespace == {" ", "\t", "\n", "\r"}

IsUpper(c) == \E i \in 1..26 : UpperLetters[i] = c

\* str.lower() on one character.
char_lower(c) ==
    IF IsUpper(c) THEN LowerLetters[CHOOSE i \in 1..26 : UpperLetters[i] = c] ELSE c

\* str.lower()
str_lower(s) == [i \in 1..Len(s) |-> char_lower(s[i])]

\* Python's `needle in hay` on strings.
str_in(needle, hay) ==
    \E i \in 0..(Len(hay) - Len(needle)) : SubSeq(hay, i + 1, i + Len(needle)) = needle

\* "".join(parts)
RECURSIVE str_join(_)
str_join(parts) ==
    IF parts = <<>> THEN <<>> ELSE Head(parts) \o str_join(Tail(parts))

\* All sequences over S of length at most n.
SeqsUpTo(S, n) == UNION {[1..k -> S] : k \in 0..n}

(***************************************************************************)
(* 2) Subject keyword/phrase matching                                       *)
(***************************************************************************)

\* The list objects built at lines 83-84 when the module is loaded.
INITIAL_SUBJECT_KEYWORDS ==
    << <<"e","s","k","e","r">>, <<"v","e","n","d","o","r">>, <<"u","p","d","a","t","e">> >>

INITIAL_SUBJECT_PHRASES ==
    << <<"e","s","k","e","r"," ","v","e","n","d","o","r"," ","u","p","d","a","t","e">>,
       <<"e","s","k","e","r"," ","v","e","n","d","o","r">> >>

\* subject_matches.__defaults__: Python evaluates the defaults of lines 87-89 once,
\* when the def statement runs, and keeps those objects with the function.
subject_matches_default_keywords == INITIAL_SUBJECT_KEYWORDS
subject_matches_default_phrases == INITIAL_SUBJECT_PHRASES
subject_matches_default_min_keyword_hits == 1

\* Mutant: the threshold comparison is off by one.
subject_matches_off_by_one(subject, keywords, phrases, min_keyword_hits) ==
    LET s == str_lower(IF subject = None \/ subject = <<>> THEN <<>> ELSE subject)
        hits == Cardinality({k \in 1..Len(keywords) : str_in(str_lower(keywords[k]), s)})
    IN  IF \E k \in 1..Len(phrases) : str_in(str_lower(phrases[k]), s)
        THEN TRUE
        ELSE hits >= min_keyword_hits - 1

\* Mutant: the phrase loop is missing.
subject_matches_no_phrases(subject, keywords, phrases, min_keyword_hits) ==
    LET s == str_lower(IF subject = None \/ subject = <<>> THEN <<>> ELSE subject)
        hits == Cardinality({k \in 1..Len(keywords) : str_in(str_lower(keywords[k]), s)})
    IN  hits >= min_keyword_hits

\* subject_matches, lines 86-105.  hits counts the positions of the keyword list
\* whose keyword occurs: sum(1 for kw in keywords if kw.lower() in s).
subject_matches(subject, keywords, phrases, min_keyword_hits) ==
    LET s == str_lower(IF subject = None \/ subject = <<>> THEN <<>> ELSE subject)
        hits == Cardinality({k \in 1..Len(keywords) : str_in(str_lower(keywords[k]), s)})
    IN  IF \E k \in 1..Len(phrases) : str_in(str_lower(phrases[k]), s)
        THEN TRUE
        ELSE hits >= min_keyword_hits

(***************************************************************************)
(* Calls of subject_matches on bounded inputs                               *)
(***************************************************************************)

MaxSubjectWords == 2
MaxKeywords == 2
MaxPhrases == 1
MaxHits == 3

Subject_FW ==
    <<"F","W",":"," ","E","s","k","e","r"," ","V","e","n","d","o","r"," ",
      "U","p","d","a","t","e"," ","-"," ","B","a","t","c","h"," ","1","2">>

Subject_Newsletter ==
    <<"R","a","n","d","o","m"," ","N","e","w","s","l","e","t","t","e","r">>

SubjectWords ==
    { <<"E","s","k","e","r"," ">>, <<"V","E","N","D","O","R">>,
      <<"n","e","w","s">>, <<"U","p","d","a","t","e">> }

Subjects ==
    {str_join(ws) : ws \in SeqsUpTo(SubjectWords, MaxSubjectWords)}
        \cup {None, Subject_FW, Subject_Newsletter}

KeywordVocabulary ==
    { <<"v","e","n","d","o","r">>, <<"U","p","d","a","t","e">>, <<>> }

PhraseVocabulary ==
    { <<"e","s","k","e","r"," ","V","e","n","d","o","r">>, <<>> }

KeywordLists == SeqsUpTo(KeywordVocabulary, MaxKeywords) \cup {INITIAL_SUBJECT_KEYWORDS}

PhraseLists == SeqsUpTo(PhraseVocabulary, MaxPhrases) \cup {INITIAL_SUBJECT_PHRASES}

GlobalsAtLoad ==
    /\ DEFAULT_SUBJECT_KEYWORDS = INITIAL_SUBJECT_KEYWORDS
    /\ DEFAULT_SUBJECT_PHRASES = INITIAL_SUBJECT_PHRASES

InitSubject ==
    /\ GlobalsAtLoad
    /\ pc = "call"
    /\ \E subject \in Subjects, keywords \in KeywordLists,
          phrases \in PhraseLists, min_keyword_hits \in 0..MaxHits :
            frame = [fn |-> "subject_matches", subject |-> subject,
                     keywords |-> keywords, phrases |-> phrases,
                     min_keyword_hits |-> min_keyword_hits, ret |-> None]

CallSubjectMatches ==
    /\ pc = "call"
    /\ frame.fn = "subject_matches"
    /\ pc' = "done"
    /\ frame' = [frame EXCEPT !.ret = subject_matches(frame.subject, frame.keywords,
                                                      frame.phrases, frame.min_keyword_hits)]
    /\ UNCHANGED <<DEFAULT_SUBJECT_KEYWORDS, DEFAULT_SUBJECT_PHRASES>>

NextSubject == CallSubjectMatches

SpecSubject == InitSubject /\ [][NextSubject]_vars

(***************************************************************************)
(* Claims about subject_matches                                             *)
(***************************************************************************)

SubjectText(subject) == IF subject = None THEN <<>> ELSE subject

\* p occurs in s as a substring when letter case is ignored.
OccursIgnoringCase(p, s) ==
    \E i \in 1..(Len(s) - Len(p) + 1) :
        \A j \in 1..Len(p) : char_lower(s[i + j - 1]) = char_lower(p[j])

SomePhraseOccurs ==
    \E k \in 1..Len(frame.phrases) :
        OccursIgnoringCase(frame.phrases[k], SubjectText(frame.subject))

\* The distinct configured keywords that occur in the subject.
DistinctKeywordsOccurring ==
    {kw \in {frame.keywords[k] : k \in 1..Len(frame.keywords)} :
        OccursIgnoringCase(kw, SubjectText(frame.subject))}

SubjectCallDone == pc = "done" /\ frame.fn = "subject_matches"

IsDefaultConfiguration ==
    /\ frame.keywords = INITIAL_SUBJECT_KEYWORDS
    /\ frame.phrases = INITIAL_SUBJECT_PHRASES
    /\ frame.min_keyword_hits = 1

\* C4: when no configured phrase occurs in the subject, subject_matches returns true
\* exactly when the number of distinct configured keywords occurring in the subject
\* (case-insensitively, as substrings) is at least min_keyword_hits; "Random
\* Newsletter" with the default configuration returns false.
C4_DistinctKeywordThreshold ==
    (SubjectCallDone /\ ~SomePhraseOccurs) =>
        /\ frame.ret = (Cardinality(DistinctKeywordsOccurring) >= frame.min_keyword_hits)
        /\ (frame.subject = Subject_Newsletter /\ IsDefaultConfiguration) => frame.ret = FALSE

\* C5: when some configured phrase occurs in the subject (case-insensitively),
\* subject_matches returns true whatever min_keyword_hits is; the subject
\* "FW: Esker Vendor Update - Batch 12" with the default configuration returns true.
C5_PhraseOverridesThreshold ==
    SubjectCallDone =>
        /\ SomePhraseOccurs => frame.ret = TRUE
        /\ (frame.subject = Subject_FW /\ IsDefaultConfiguration) => frame.ret = TRUE

\* A phrase occurs, the threshold exceeds the number of keywords, and the call matched.
C5_Witness ==
    /\ SubjectCallDone
    /\ SomePhraseOccurs
    /\ \A k \in 1..Len(frame.phrases) : frame.phrases[k] # <<>>
    /\ frame.min_keyword_hits > Len(frame.keywords)
    /\ frame.ret = TRUE

\* C6 as stated: for every configuration, a null or empty subject returns false
\* whenever min_keyword_hits is at least 1.
C6_EmptySubjectNeverMatches ==
    (SubjectCallDone /\ frame.subject \in {None, <<>>} /\ frame.min_keyword_hits >= 1)
        => frame.ret = FALSE

NoEmptyKeywordOrPhrase ==
    /\ \A k \in 1..Len(frame.keywords) : frame.keywords[k] # <<>>
    /\ \A k \in 1..Len(frame.phrases) : frame.phrases[k] # <<>>

\* C6 amended: for every configuration none of whose keywords and phrases is the
\* empty string, a null or empty subject matches exactly when min_keyword_hits is 0
\* (it returns false whenever min_keyword_hits is at least 1).
C6_EmptySubjectNonEmptyConfig ==
    (SubjectCallDone /\ frame.subject \in {None, <<>>} /\ NoEmptyKeywordOrPhrase)
        => frame.ret = (frame.min_keyword_hits = 0)

\* A null subject, a configuration with keywords and phrases, threshold 1: no match.
C6_Witness ==
    /\ SubjectCallDone
    /\ frame.subject = None
    /\ NoEmptyKeywordOrPhrase
    /\ Len(frame.keywords) > 0 /\ Len(frame.phrases) > 0
    /\ frame.min_keyword_hits = 1
    /\ frame.ret = FALSE

(***************************************************************************)
(* 3) Body text extraction + parsing                                        *)
(***************************************************************************)

UpperSet == {UpperLetters[i] : i \in 1..26}

LineBreakChars == {"\r", "\n"}

\* The characters str.strip(" -|") removes.
SeparatorChars == {" ", "-", "|"}

\* The bounds of the vendor group, [^\s]{3,40}.
VendorMin == 3
VendorMax == 40

\* The first position at or after i whose character is not in S (Len(t) + 1 if none).
RECURSIVE SkipIn(_, _, _)
SkipIn(t, i, S) ==
    IF i <= Len(t) /\ t[i] \in S THEN SkipIn(t, i + 1, S) ELSE i

\* The first position at or after i whose character is in S (Len(t) + 1 if none).
RECURSIVE SkipNotIn(_, _, _)
SkipNotIn(t, i, S) ==
    IF i <= Len(t) /\ t[i] \notin S THEN SkipNotIn(t, i + 1, S) ELSE i

\* The last position at or before i whose character is not in S (0 if none).
RECURSIVE SkipBackIn(_, _, _)
SkipBackIn(t, i, S) ==
    IF i >= 1 /\ t[i] \in S THEN SkipBackIn(t, i - 1, S) ELSE i

\* str.strip(chars)
str_strip(s, chars) ==
    LET first == SkipIn(s, 1, chars)
        last == SkipBackIn(s, Len(s), chars)
    IN  IF first > last THEN <<>> ELSE SubSeq(s, first, last)

\* re.sub(r"\s+", " ", s), from position i on.
RECURSIVE collapse_whitespace(_, _)
collapse_whitespace(s, i) ==
    IF i > Len(s) THEN <<>>
    ELSE IF s[i] \in Whitespace
         THEN <<" ">> \o collapse_whitespace(s, SkipIn(s, i, Whitespace))
         ELSE <<s[i]>> \o collapse_whitespace(s, i + 1)

\* Mutant: the lookahead is (?=$|\n), without the optional carriage return.
AtLineEnd_no_cr(t, p) ==
    \/ p = Len(t) + 1
    \/ p <= Len(t) /\ t[p] = "\n"

\* The lookahead (?=$|\r?\n) at position p, under re.MULTILINE: the end of the
\* text, just before a newline, or just before a carriage return and a newline.
AtLineEnd(t, p) ==
    \/ p = Len(t) + 1
    \/ p <= Len(t) /\ t[p] = "\n"
    \/ p + 1 <= Len(t) /\ t[p] = "\r" /\ t[p + 1] = "\n"

\* (?P<name>[^\r\n]+?) followed by the lookahead, for a name that has reached
\* position p: the position after the shortest name, 0 when there is none.
RECURSIVE NameScan(_, _)
NameScan(t, p) ==
    IF p > Len(t) \/ t[p] \in LineBreakChars THEN 0
    ELSE IF AtLineEnd(t, p + 1) THEN p + 1
    ELSE NameScan(t, p + 1)

\* The second \s+ is greedy: it first takes the whole whitespace run and gives
\* characters back one at a time while no name matches after it.  The start of the
\* name, from ns down to lo; 0 when no start works.
RECURSIVE NameStart(_, _, _)
NameStart(t, ns, lo) ==
    IF ns < lo THEN 0
    ELSE IF NameScan(t, ns) # 0 THEN ns
    ELSE NameStart(t, ns - 1, lo)

NoMatch == [ok |-> FALSE]

\* Mutant: the pattern is compiled with re.IGNORECASE.
CompanyAt_ignorecase(t, i) ==
    /\ i + 3 <= Len(t)
    /\ char_lower(t[i]) \in {LowerLetters[k] : k \in 1..26}
    /\ char_lower(t[i + 1]) \in {LowerLetters[k] : k \in 1..26}
    /\ t[i + 2] \in Digits /\ t[i + 3] \in Digits

\* ([A-Z]{2}\d{2}) at position i.
CompanyAt(t, i) ==
    /\ i + 3 <= Len(t)
    /\ t[i] \in UpperSet /\ t[i + 1] \in UpperSet
    /\ t[i + 2] \in Digits /\ t[i + 3] \in Digits

\* Mutant: the vendor group is [^\s]{3,}, with no upper bound.
TripletMatchAt_unbounded_vendor(t, i) ==
    IF ~CompanyAt(t, i) THEN NoMatch
    ELSE LET vs == SkipIn(t, i + 4, Whitespace)
             ve == SkipNotIn(t, vs, Whitespace)
             we == SkipIn(t, ve, Whitespace)
             ns == NameStart(t, we, ve + 1)
         IN  IF vs = i + 4 \/ ve - vs < VendorMin \/ we = ve \/ ns = 0
             THEN NoMatch
             ELSE [ok |-> TRUE, start |-> i, vs |-> vs, ve |-> ve, ns |-> ns,
                   end |-> NameScan(t, ns)]

\* One match attempt of _TRIPLET_REGEX starting at position i.  Positions are
\* those of the match object: start, the span of the vendor group [vs, ve), the
\* start of the name group, and the end of the match.
TripletMatchAt(t, i) ==
    IF ~CompanyAt(t, i) THEN NoMatch
    ELSE LET vs == SkipIn(t, i + 4, Whitespace)
             ve == SkipNotIn(t, vs, Whitespace)
             we == SkipIn(t, ve, Whitespace)
             ns == NameStart(t, we, ve + 1)
         IN  IF vs = i + 4 \/ ve - vs < VendorMin \/ ve - vs > VendorMax
                \/ we = ve \/ ns = 0
             THEN NoMatch
             ELSE [ok |-> TRUE, start |-> i, vs |-> vs, ve |-> ve, ns |-> ns,
                   end |-> NameScan(t, ns)]

\* _TRIPLET_REGEX.finditer(t) from position pos: the leftmost match, then the
\* search goes on from its end.
RECURSIVE TripletFinditer(_, _)
TripletFinditer(t, pos) ==
    IF pos > Len(t) THEN <<>>
    ELSE LET m == TripletMatchAt(t, pos)
         IN  IF m.ok THEN <<m>> \o TripletFinditer(t, m.end)
             ELSE TripletFinditer(t, pos + 1)

\* Mutant: line 150 without the final .strip(" -|").
TripletOfMatch_no_separator_strip(t, m) ==
    LET company == str_strip(SubSeq(t, m.start, m.start + 3), Whitespace)
        vendor == str_strip(SubSeq(t, m.vs, m.ve - 1), Whitespace)
        name == str_strip(SubSeq(t, m.ns, m.end - 1), Whitespace)
    IN  <<company, vendor, collapse_whitespace(name, 1)>>

\* Lines 146-151 for one match: the three groups, stripped and normalised.
TripletOfMatch(t, m) ==
    LET company == str_strip(SubSeq(t, m.start, m.start + 3), Whitespace)
        vendor == str_strip(SubSeq(t, m.vs, m.ve - 1), Whitespace)
        name == str_strip(SubSeq(t, m.ns, m.end - 1), Whitespace)
    IN  <<company, vendor, str_strip(collapse_whitespace(name, 1), SeparatorChars)>>

\* extract_triplets_from_text, lines 138-152.
extract_triplets_from_text(text) ==
    LET t == IF text = None THEN <<>> ELSE text
        ms == TripletFinditer(t, 1)
    IN  [k \in 1..Len(ms) |-> TripletOfMatch(t, ms[k])]

(***************************************************************************)
(* Calls of extract_triplets_from_text on bounded inputs                    *)
(***************************************************************************)

MaxLines == 2

\* A vendor token of n characters.
VendorToken(n) == [i \in 1..n |-> "9"]

CompanyCodes == { <<"S","G","7","7">>, <<"s","g","8","0">> }

VendorTokens ==
    {VendorToken(n) : n \in {VendorMin - 1, VendorMin, VendorMax, VendorMax + 1}}

NameTexts ==
    { <<"A","C","M","E">>,
      <<"-"," ","A","-","B","\t"," ","|","C"," ","|">>,
      <<"-">> }

\* company code, whitespace, vendor token, whitespace, name
RecordLines ==
    {c \o <<" ">> \o v \o <<" ","\t">> \o n :
        c \in CompanyCodes, v \in VendorTokens, n \in NameTexts}

\* Lines that are not records: blank, parts of a record, plain words.
OtherLines ==
    { <<>>,
      <<"S","G","7","7">>,
      <<"S","G","7","7"," ","1","2","3">>,
      <<"S","G","7","7"," ","1","2","3"," ">>,
      <<"1","2","3"," ","A","C","M","E">>,
      <<"A","B","1","2","\t","x","-","1"," ","Y"," ","Z"," ">> }

Lines == RecordLines \cup OtherLines

LineSeparators == { <<"\n">>, <<"\r","\n">> }

RECURSIVE JoinLines(_, _)
JoinLines(ls, sep) ==
    IF Len(ls) = 0 THEN <<>>
    ELSE IF Len(ls) = 1 THEN ls[1]
    ELSE ls[1] \o sep \o JoinLines(Tail(ls), sep)

Text_SG77_SG80 ==
    <<"S","G","7","7"," ","1","0","0","0","3","3","8","4","3","6"," ",
      "S","P","E","E","D","Y","L","I","N","K"," ","L","O","G","I","S","T","I","C","S"," ",
      "S","D","N"," ","B","H","D","\n",
      "S","G","8","0"," ","1","0","0","0","4","4","5","5","6","6"," ",
      "A","C","M","E"," ","T","R","A","D","I","N","G"," ","P","T","E"," ","L","T","D">>

\* Texts whose first token ends in the shape of a company code.
Text_XXSG77 == <<"X","X","S","G","7","7"," ","1","2","3"," ","A","C","M","E">>

Text_ABCD12 == <<"A","B","C","D","1","2"," ","1","2","3"," ","A","C","M","E">>

Texts ==
    {JoinLines(ls, sep) : ls \in SeqsUpTo(Lines, MaxLines), sep \in LineSeparators}
        \cup {None, Text_SG77_SG80, Text_XXSG77, Text_ABCD12}

InitExtract ==
    /\ GlobalsAtLoad
    /\ pc = "call"
    /\ \E text \in Texts :
            frame = [fn |-> "extract_triplets_from_text", text |-> text, ret |-> None]

CallExtractTriplets ==
    /\ pc = "call"
    /\ frame.fn = "extract_triplets_from_text"
    /\ pc' = "done"
    /\ frame' = [frame EXCEPT !.ret = extract_triplets_from_text(frame.text)]
    /\ UNCHANGED <<DEFAULT_SUBJECT_KEYWORDS, DEFAULT_SUBJECT_PHRASES>>

NextExtract == CallExtractTriplets

SpecExtract == InitExtract /\ [][NextExtract]_vars

(***************************************************************************)
(* Claims about extract_triplets_from_text                                  *)
(***************************************************************************)

ExtractCallDone == pc = "done" /\ frame.fn = "extract_triplets_from_text"

InputText == IF frame.text = None THEN <<>> ELSE frame.text

HorizontalSpace == {" ", "\t"}

\* The lines of t, split at newlines.
RECURSIVE SplitLines(_)
SplitLines(t) ==
    IF \A i \in 1..Len(t) : t[i] # "\n" THEN <<t>>
    ELSE LET nl == CHOOSE i \in 1..Len(t) : t[i] = "\n" /\ \A j \in 1..(i - 1) : t[j] # "\n"
         IN  <<SubSeq(t, 1, nl - 1)>> \o SplitLines(SubSeq(t, nl + 1, Len(t)))

\* A line without the carriage return of a CR LF line ending.
WithoutCR(l) ==
    IF Len(l) > 0 /\ l[Len(l)] = "\r" THEN SubSeq(l, 1, Len(l) - 1) ELSE l

RECURSIVE TrimLeft(_, _)
TrimLeft(s, S) == IF s # <<>> /\ Head(s) \in S THEN TrimLeft(Tail(s), S) ELSE s

RECURSIVE TrimRight(_, _)
TrimRight(s, S) ==
    IF s # <<>> /\ s[Len(s)] \in S THEN TrimRight(SubSeq(s, 1, Len(s) - 1), S) ELSE s

\* The first run of characters outside S at the head of s.
RECURSIVE TakeWhileNotIn(_, _)
TakeWhileNotIn(s, S) ==
    IF s # <<>> /\ Head(s) \notin S THEN <<Head(s)>> \o TakeWhileNotIn(Tail(s), S) ELSE <<>>

\* The whitespace-separated words of s, joined by single spaces.
RECURSIVE SingleSpaced(_)
SingleSpaced(s) ==
    LET u == TrimLeft(s, Whitespace)
        w == TakeWhileNotIn(u, Whitespace)
        rest == TrimLeft(SubSeq(u, Len(w) + 1, Len(u)), Whitespace)
    IN  IF u = <<>> THEN <<>>
        ELSE IF rest = <<>> THEN w
        ELSE w \o <<" ">> \o SingleSpaced(rest)

\* The fields of a record line: company code, horizontal whitespace, vendor token,
\* horizontal whitespace, name.
LineCode(l) == SubSeq(l, 1, 4)
LineAfterCode(l) == TrimLeft(SubSeq(l, 5, Len(l)), HorizontalSpace)
LineVendor(l) == TakeWhileNotIn(LineAfterCode(l), Whitespace)
LineAfterVendor(l) == SubSeq(LineAfterCode(l), Len(LineVendor(l)) + 1, Len(LineAfterCode(l)))
LineName(l) == TrimLeft(LineAfterVendor(l), HorizontalSpace)

WellFormedLine(l) ==
    /\ Len(l) >= 4
    /\ l[1] \in UpperSet /\ l[2] \in UpperSet /\ l[3] \in Digits /\ l[4] \in Digits
    /\ \A i \in 1..Len(l) : l[i] # "\r"
    /\ Len(LineAfterCode(l)) < Len(l) - 4
    /\ Len(LineVendor(l)) >= 3 /\ Len(LineVendor(l)) <= 40
    /\ Len(LineName(l)) < Len(LineAfterVendor(l))
    /\ LineName(l) # <<>>

LinesOfInput == LET ls == SplitLines(InputText) IN [k \in 1..Len(ls) |-> WithoutCR(ls[k])]

WellFormedInput == \A k \in 1..Len(LinesOfInput) : WellFormedLine(LinesOfInput[k])

RecordOfLine(l) ==
    <<LineCode(l), LineVendor(l), TrimRight(TrimLeft(SingleSpaced(LineName(l)), SeparatorChars), SeparatorChars)>>

\* C7: for a text of well-formed record lines on consecutive lines,
\* extract_triplets_from_text returns exactly one record per line, in line order,
\* each with the three fields of its own line; the SG77/SG80 text yields its two
\* records.
C7_OneRecordPerLine ==
    ExtractCallDone =>
        /\ WellFormedInput =>
              frame.ret = [k \in 1..Len(LinesOfInput) |-> RecordOfLine(LinesOfInput[k])]
        /\ frame.text = Text_SG77_SG80 =>
              frame.ret =
                << << <<"S","G","7","7">>, <<"1","0","0","0","3","3","8","4","3","6">>,
                      <<"S","P","E","E","D","Y","L","I","N","K"," ","L","O","G","I","S","T","I","C","S",
                        " ","S","D","N"," ","B","H","D">> >>,
                   << <<"S","G","8","0">>, <<"1","0","0","0","4","4","5","5","6","6">>,
                      <<"A","C","M","E"," ","T","R","A","D","I","N","G"," ","P","T","E"," ","L","T","D">> >> >>

\* Two well-formed lines with a CR LF line ending, and two records returned.
C7_Witness ==
    /\ ExtractCallDone
    /\ WellFormedInput
    /\ Len(LinesOfInput) = 2
    /\ \E i \in 1..Len(InputText) : InputText[i] = "\r"
    /\ LinesOfInput[1] # LinesOfInput[2]
    /\ Len(frame.ret) = 2

\* The characters of s that are not whitespace, in order.
RECURSIVE WithoutWhitespace(_)
WithoutWhitespace(s) ==
    IF s = <<>> THEN <<>>
    ELSE IF Head(s) \in Whitespace THEN WithoutWhitespace(Tail(s))
    ELSE <<Head(s)>> \o WithoutWhitespace(Tail(s))

MatchesOfInput == TripletFinditer(InputText, 1)

\* The text the name group matched for the k-th record.
RawName(k) == SubSeq(InputText, MatchesOfInput[k].ns, MatchesOfInput[k].end - 1)

\* C8: the name of every record has no whitespace other than single spaces between
\* words, does not begin or end with '-', '|' or a space, and keeps every other
\* character of the matched name, the hyphens and pipes inside it included.
C8_NameNormalised ==
    ExtractCallDone =>
        \A k \in 1..Len(frame.ret) :
            LET name == frame.ret[k][3]
            IN  /\ Len(frame.ret) = Len(MatchesOfInput)
                /\ \A i \in 1..Len(name) : name[i] \in Whitespace => name[i] = " "
                /\ \A i \in 1..(Len(name) - 1) : ~(name[i] = " " /\ name[i + 1] = " ")
                /\ name # <<>> => (name[1] \notin SeparatorChars /\ name[Len(name)] \notin SeparatorChars)
                /\ WithoutWhitespace(name)
                     = TrimRight(TrimLeft(WithoutWhitespace(RawName(k)), SeparatorChars), SeparatorChars)

\* A record whose matched name had separators at both ends, a tab, and a hyphen
\* and a pipe inside.
C8_Witness ==
    /\ ExtractCallDone
    /\ \E k \in 1..Len(frame.ret) :
          /\ RawName(k)[1] = "-"
          /\ \E i \in 1..Len(RawName(k)) : RawName(k)[i] = "\t"
          /\ frame.ret[k][3] = <<"A","-","B"," ","|","C">>

\* C9: the company_code of every record is two uppercase ASCII letters followed by
\* two digits.
C9_CompanyCodeShape ==
    ExtractCallDone =>
        \A k \in 1..Len(frame.ret) :
            LET company == frame.ret[k][1]
            IN  /\ Len(company) = 4
                /\ \E i \in 1..26 : company[1] = UpperLetters[i]
                /\ \E i \in 1..26 : company[2] = UpperLetters[i]
                /\ company[3] \in Digits /\ company[4] \in Digits

\* The text begins with a lower-case code on a record line, and the only record
\* returned comes from the upper-case line after it.
C9_Witness ==
    /\ ExtractCallDone
    /\ Len(LinesOfInput) = 2
    /\ Len(LinesOfInput[1]) > 4
    /\ SubSeq(LinesOfInput[1], 1, 4) = <<"s","g","8","0">>
    /\ Len(LineVendor(LinesOfInput[1])) = 3
    /\ WellFormedLine(LinesOfInput[2])
    /\ Len(frame.ret) = 1
    /\ frame.ret[1][1] = <<"S","G","7","7">>

\* The first position at or after i that holds whitespace (Len(t) + 1 if none).
RECURSIVE NextWhitespace(_, _)
NextWhitespace(t, i) ==
    IF i > Len(t) \/ t[i] \in Whitespace THEN i ELSE NextWhitespace(t, i + 1)

\* The first position at or after i that holds no whitespace (Len(t) + 1 if none).
RECURSIVE NextNonWhitespace(_, _)
NextNonWhitespace(t, i) ==
    IF i > Len(t) \/ t[i] \notin Whitespace THEN i ELSE NextNonWhitespace(t, i + 1)

\* A company code, two uppercase letters and two digits, stands at position i.
CodeShapeAt(t, i) ==
    /\ i + 3 <= Len(t)
    /\ \E k \in 1..26 : t[i] = UpperLetters[k]
    /\ \E k \in 1..26 : t[i + 1] = UpperLetters[k]
    /\ t[i + 2] \in Digits /\ t[i + 3] \in Digits

\* C10: the vendor_number of every record is a whole whitespace-delimited token of
\* the input, 3 to 40 characters long, with whitespace right before and right after
\* it; a company code whose candidate token is shorter than 3 or longer than 40
\* characters yields no record.
C10_VendorToken ==
    ExtractCallDone =>
        LET t == InputText
            ms == MatchesOfInput
        IN  /\ Len(frame.ret) = Len(ms)
            /\ \A k \in 1..Len(frame.ret) :
                  LET vendor == frame.ret[k][2]
                      first == NextNonWhitespace(t, ms[k].start + 4)
                      after == NextWhitespace(t, first)
                  IN  /\ vendor = SubSeq(t, first, after - 1)
                      /\ Len(vendor) >= 3 /\ Len(vendor) <= 40
                      /\ \A i \in 1..Len(vendor) : vendor[i] \notin Whitespace
                      /\ first > ms[k].start + 4 /\ t[first - 1] \in Whitespace
                      /\ after <= Len(t) /\ t[after] \in Whitespace
            /\ \A i \in 1..Len(t) :
                  CodeShapeAt(t, i) =>
                      LET first == NextNonWhitespace(t, i + 4)
                          after == NextWhitespace(t, first)
                      IN  (after - first < 3 \/ after - first > 40) =>
                              \A k \in 1..Len(ms) : ms[k].start # i

\* One line carries a 41-character token and yields nothing; the other carries a
\* 40-character token and yields the only record.
C10_Witness ==
    /\ ExtractCallDone
    /\ Len(LinesOfInput) = 2
    /\ Len(LineVendor(LinesOfInput[1])) = 41
    /\ LineCode(LinesOfInput[1]) = <<"S","G","7","7">>
    /\ Len(frame.ret) = 1
    /\ Len(frame.ret[1][2]) = 40

\* C17: no record spans a line break: from the first character of its company
\* code to the last character of its name, the text a record was matched in holds
\* neither "\n" nor "\r".
C17_RecordOnOneLine ==
    ExtractCallDone =>
        LET found == MatchesOfInput
        IN  \A k \in 1..Len(found) :
                \A p \in found[k].start..(found[k].end - 1) :
                    InputText[p] \notin LineBreakChars

\* C18: the name of every returned record is non-empty.
C18_NameNonEmpty ==
    ExtractCallDone =>
        \A k \in 1..Len(frame.ret) : frame.ret[k][3] # <<>>

\* C20: the company code of every returned record is a whole token: it starts the
\* text or follows a whitespace character.
C20_CompanyCodeWholeToken ==
    ExtractCallDone =>
        LET found == MatchesOfInput
        IN  /\ Len(found) = Len(frame.ret)
            /\ \A k \in 1..Len(found) :
                   \/ found[k].start = 1
                   \/ InputText[found[k].start - 1] \in Whitespace

(***************************************************************************)
(* html_to_text                                                             *)
(***************************************************************************)

\* Each matcher gives the position after the match of its pattern that starts at
\* position i, or 0 when the pattern does not match there.

\* (?i)<\s*br\s*/?\s*>
MatchBr(t, i) ==
    IF ~(i <= Len(t) /\ t[i] = "<") THEN 0
    ELSE LET j == SkipIn(t, i + 1, Whitespace)
             k == SkipIn(t, j + 2, Whitespace)
             g == SkipIn(t, k + 1, Whitespace)
         IN  IF ~(j + 1 <= Len(t) /\ char_lower(t[j]) = "b" /\ char_lower(t[j + 1]) = "r") THEN 0
             ELSE IF k <= Len(t) /\ t[k] = ">" THEN k + 1
             ELSE IF k <= Len(t) /\ t[k] = "/" /\ g <= Len(t) /\ t[g] = ">" THEN g + 1
             ELSE 0

\* Mutant: the substitution of line 132 is missing, so </p> is never matched.
MatchPClose_missing(t, i) == 0

\* (?i)</\s*p\s*>
MatchPClose(t, i) ==
    IF ~(i + 1 <= Len(t) /\ t[i] = "<" /\ t[i + 1] = "/") THEN 0
    ELSE LET j == SkipIn(t, i + 2, Whitespace)
             k == SkipIn(t, j + 1, Whitespace)
         IN  IF j <= Len(t) /\ char_lower(t[j]) = "p" /\ k <= Len(t) /\ t[k] = ">"
             THEN k + 1
             ELSE 0

\* (?i)<\s*p[^>]*>
MatchPOpen(t, i) ==
    IF ~(i <= Len(t) /\ t[i] = "<") THEN 0
    ELSE LET j == SkipIn(t, i + 1, Whitespace)
             k == SkipNotIn(t, j + 1, {">"})
         IN  IF j <= Len(t) /\ char_lower(t[j]) = "p" /\ k <= Len(t) THEN k + 1 ELSE 0

\* (?s)<[^>]+>
MatchTag(t, i) ==
    IF ~(i <= Len(t) /\ t[i] = "<") THEN 0
    ELSE LET k == SkipNotIn(t, i + 1, {">"})
         IN  IF k <= Len(t) /\ k > i + 1 THEN k + 1 ELSE 0

\* [ \t]+
MatchBlanks(t, i) ==
    LET k == SkipIn(t, i, {" ", "\t"}) IN IF k > i THEN k ELSE 0

\* The position after the match of the named pattern at position i, 0 when none.
MatchPattern(pattern, t, i) ==
    CASE pattern = "br" -> MatchBr(t, i)
      [] pattern = "p_close" -> MatchPClose(t, i)
      [] pattern = "p_open" -> MatchPOpen(t, i)
      [] pattern = "tag" -> MatchTag(t, i)
      [] pattern = "blanks" -> MatchBlanks(t, i)

\* re.sub(pattern, repl, t) from position i on: every non-overlapping match, from
\* the left, is replaced by repl.
RECURSIVE re_sub(_, _, _, _)
re_sub(pattern, repl, t, i) ==
    IF i > Len(t) THEN <<>>
    ELSE LET e == MatchPattern(pattern, t, i)
         IN  IF e # 0 THEN repl \o re_sub(pattern, repl, t, e)
             ELSE <<t[i]>> \o re_sub(pattern, repl, t, i + 1)

\* A variant without the two substitutions that turn <br> and </p> into newlines.
html_to_text_no_newlines(html) ==
    IF html = None \/ html = <<>> THEN <<>>
    ELSE LET t3 == re_sub("p_open", <<>>, html, 1)
             t4 == re_sub("tag", <<" ">>, t3, 1)
             t5 == re_sub("blanks", <<" ">>, t4, 1)
         IN  str_strip(t5, Whitespace)

\* html_to_text, lines 123-136.
html_to_text(html) ==
    IF html = None \/ html = <<>> THEN <<>>
    ELSE LET t1 == re_sub("br", <<"\n">>, html, 1)
             t2 == re_sub("p_close", <<"\n">>, t1, 1)
             t3 == re_sub("p_open", <<>>, t2, 1)
             t4 == re_sub("tag", <<" ">>, t3, 1)
             t5 == re_sub("blanks", <<" ">>, t4, 1)
         IN  str_strip(t5, Whitespace)

(***************************************************************************)
(* Calls of html_to_text on bounded inputs                                  *)
(***************************************************************************)

MaxHtmlPieces == 3

Html_Example ==
    <<"<","p",">","S","G","1","2"," ","9","9","9","A","A","A"," ","A","B","C"," ","C","o",
      "<","/","p",">","<","b","r",">","S","G","1","3"," ","1","0","0","0"," ","X","Y","Z",
      " ","I","n","c">>

HtmlPieces ==
    { <<"<","p",">">>, <<"<","/","p",">">>, <<"<","/"," ","P"," ",">">>,
      <<"<","b","r",">">>, <<"<"," ","B","R"," ","/",">">>, <<"<","b",">">>,
      <<"<","p"," ","i","d","=","x",">">>, <<"x"," ","y">>, <<" ","\t">>, <<"\n">> }

Htmls == {str_join(ps) : ps \in SeqsUpTo(HtmlPieces, MaxHtmlPieces)} \cup {None, Html_Example}

InitHtml ==
    /\ GlobalsAtLoad
    /\ pc = "call"
    /\ \E html \in Htmls : frame = [fn |-> "html_to_text", html |-> html, ret |-> None]

CallHtmlToText ==
    /\ pc = "call"
    /\ frame.fn = "html_to_text"
    /\ pc' = "done"
    /\ frame' = [frame EXCEPT !.ret = html_to_text(frame.html)]
    /\ UNCHANGED <<DEFAULT_SUBJECT_KEYWORDS, DEFAULT_SUBJECT_PHRASES>>

NextHtml == CallHtmlToText

SpecHtml == InitHtml /\ [][NextHtml]_vars

(***************************************************************************)
(* Claims about html_to_text                                                *)
(***************************************************************************)

HtmlCallDone == pc = "done" /\ frame.fn = "html_to_text"

Line_SG12 == <<"S","G","1","2"," ","9","9","9","A","A","A"," ","A","B","C"," ","C","o">>

Line_SG13 == <<"S","G","1","3"," ","1","0","0","0"," ","X","Y","Z"," ","I","n","c">>

\* C2 as stated: html_to_text of <p>SG12 999AAA ABC Co</p><br>SG13 1000 XYZ Inc is
\* "SG12 999AAA ABC Co", one newline, "SG13 1000 XYZ Inc".
C2_ExampleSingleNewline ==
    (HtmlCallDone /\ frame.html = Html_Example)
        => frame.ret = Line_SG12 \o <<"\n">> \o Line_SG13

\* C2 amended: html_to_text of <p>SG12 999AAA ABC Co</p><br>SG13 1000 XYZ Inc is
\* "SG12 999AAA ABC Co", two newlines (one for </p>, one for <br>),
\* "SG13 1000 XYZ Inc", and nothing else.
C2_ExampleTwoNewlines ==
    (HtmlCallDone /\ frame.html = Html_Example)
        => frame.ret = Line_SG12 \o <<"\n", "\n">> \o Line_SG13

\* html_to_text has returned for the example body.
C2_Witness ==
    /\ HtmlCallDone
    /\ frame.html = Html_Example
    /\ Len(frame.ret) = Len(Line_SG12) + 2 + Len(Line_SG13)

(***************************************************************************)
(* 4) Result assembly                                                       *)
(***************************************************************************)

\* Mutant: drop_duplicates(keep="last").
RECURSIVE drop_duplicates_keep_last(_)
drop_duplicates_keep_last(rows) ==
    IF rows = <<>> THEN <<>>
    ELSE IF \E j \in 2..Len(rows) : rows[j] = Head(rows)
         THEN drop_duplicates_keep_last(Tail(rows))
         ELSE <<Head(rows)>> \o drop_duplicates_keep_last(Tail(rows))

\* A variant that removes one repeated row per pass.
RECURSIVE drop_duplicates_one_repeat(_)
drop_duplicates_one_repeat(rows) ==
    IF rows = <<>> THEN <<>>
    ELSE LET r == rows[Len(rows)]
             front == SubSeq(rows, 1, Len(rows) - 1)
         IN  IF \E j \in 1..Len(front) : front[j] = r
             THEN front
             ELSE drop_duplicates_one_repeat(front) \o <<r>>

\* DataFrame.drop_duplicates().reset_index(drop=True): pandas keeps the first of
\* the rows that are equal in every column, in the order of the frame.
RECURSIVE drop_duplicates(_)
drop_duplicates(rows) ==
    IF rows = <<>> THEN <<>>
    ELSE LET r == rows[Len(rows)]
             front == SubSeq(rows, 1, Len(rows) - 1)
         IN  IF \E j \in 1..Len(front) : front[j] = r
             THEN drop_duplicates(front)
             ELSE drop_duplicates(front) \o <<r>>

\* build_dataframe, lines 270-278; the frame is the sequence of its rows.
build_dataframe(rows) ==
    IF rows = <<>> THEN <<>> ELSE drop_duplicates(rows)

(***************************************************************************)
(* Calls of build_dataframe on bounded inputs                               *)
(***************************************************************************)

MaxRows == 4

\* Triplets that differ from one another in one field only.
Triplets ==
    { << <<"S","G","7","7">>, <<"1","2","3">>, <<"A","C","M","E">> >>,
      << <<"S","G","8","0">>, <<"1","2","3">>, <<"A","C","M","E">> >>,
      << <<"S","G","7","7">>, <<"1","2","4">>, <<"A","C","M","E">> >>,
      << <<"S","G","7","7">>, <<"1","2","3">>, <<"A","c","m","e">> >> }

InitDedup ==
    /\ GlobalsAtLoad
    /\ pc = "call"
    /\ \E rows \in SeqsUpTo(Triplets, MaxRows) :
            frame = [fn |-> "build_dataframe", rows |-> rows, ret |-> None]

CallBuildDataframe ==
    /\ pc = "call"
    /\ frame.fn = "build_dataframe"
    /\ pc' = "done"
    /\ frame' = [frame EXCEPT !.ret = build_dataframe(frame.rows)]
    /\ UNCHANGED <<DEFAULT_SUBJECT_KEYWORDS, DEFAULT_SUBJECT_PHRASES>>

NextDedup == CallBuildDataframe

SpecDedup == InitDedup /\ [][NextDedup]_vars

(***************************************************************************)
(* Claims about build_dataframe                                             *)
(***************************************************************************)

DedupCallDone == pc = "done" /\ frame.fn = "build_dataframe"

\* The position of the first occurrence of r in rows.
FirstSeen(rows, r) ==
    CHOOSE i \in 1..Len(rows) : rows[i] = r /\ \A j \in 1..(i - 1) : rows[j] # r

\* C3: build_dataframe keeps the first occurrence of each distinct triplet and drops
\* every later exact duplicate: no two output rows are equal, the output holds
\* exactly the distinct triplets of the input, and lists them in first-seen order.
C3_FirstOccurrencesInOrder ==
    DedupCallDone =>
        LET rows == frame.rows
            out == frame.ret
        IN  /\ \A i, j \in 1..Len(out) : i # j => out[i] # out[j]
            /\ {out[i] : i \in 1..Len(out)} = {rows[i] : i \in 1..Len(rows)}
            /\ \A i, j \in 1..Len(out) :
                  i < j => FirstSeen(rows, out[i]) < FirstSeen(rows, out[j])

\* An input whose first row comes back after another row, and an output that
\* dropped the repetition.
C3_Witness ==
    /\ DedupCallDone
    /\ Len(frame.rows) >= 3
    /\ frame.rows[1] = frame.rows[3]
    /\ frame.rows[2] # frame.rows[1]
    /\ Len(frame.ret) = Len(frame.rows) - 1

\* C15: build_dataframe applied to the rows of its own output returns the same
\* rows in the same order.
C15_DedupIdempotent ==
    DedupCallDone => build_dataframe(frame.ret) = frame.ret

\* An input with a row given three times, whose output kept two or more rows and
\* is left as it is by a second pass.
C15_Witness ==
    /\ DedupCallDone
    /\ \E i, j, k \in 1..Len(frame.rows) :
          i < j /\ j < k /\ frame.rows[i] = frame.rows[j] /\ frame.rows[j] = frame.rows[k]
    /\ Len(frame.ret) >= 2
    /\ build_dataframe(frame.ret) = frame.ret

(***************************************************************************)
(* 4) Scan of the inbox: get_esker_vendor_updates_df                        *)
(***************************************************************************)

\* The inbox folder object.
Inbox == <<"Inbox">>

\* Python's truthiness of a string or None: x or "".
OrEmpty(x) == IF x = None THEN <<>> ELSE x

\* A variant that takes a body of exactly 4 characters as long enough.
extract_rows_from_email_short_body_4(msg) ==
    LET body_text == str_strip(OrEmpty(msg.Body), Whitespace)
    IN  IF body_text = <<>> \/ Len(body_text) < 4
        THEN extract_triplets_from_text(html_to_text(OrEmpty(msg.HTMLBody)))
        ELSE extract_triplets_from_text(body_text)

\* extract_rows_from_email, lines 256-267.
extract_rows_from_email(msg) ==
    LET body_text == str_strip(OrEmpty(msg.Body), Whitespace)
    IN  IF body_text = <<>> \/ Len(body_text) < 5
        THEN extract_triplets_from_text(html_to_text(OrEmpty(msg.HTMLBody)))
        ELSE extract_triplets_from_text(body_text)

(***************************************************************************)
(* Calls of extract_rows_from_email                                         *)
(***************************************************************************)

\* The largest number of whitespace characters before and after a body.
MaxBodyPad == 1

Body_SG7 == <<"S","G","7">>

Body_SG77 == <<"S","G","7","7">>

Body_AB_12 == <<"A","B"," ","1","2">>

Body_SG12 == <<"S","G","1","2"," ","9","9","9","A","A","A"," ","A","B","C"," ","C","o">>

\* Bodies without surrounding whitespace: empty, of 3, 4 and 5 characters, and
\* two that hold a record.
BodyCores == {<<>>, Body_SG7, Body_SG77, Body_AB_12, Body_SG12,
              <<"S","G","7","7"," ","1","2","3"," ","A","C","M","E">>}

BodyPads == SeqsUpTo({" ", "\n"}, MaxBodyPad)

\* The values of msg.Body: None, or a core with whitespace around it.
Bodies == {None} \cup {l \o c \o r : l \in BodyPads, c \in BodyCores, r \in BodyPads}

\* The values of msg.HTMLBody: None, empty, and markup with one or two records.
\* Html_Example is <p>SG12 999AAA ABC Co</p><br>SG13 1000 XYZ Inc.
HTMLBodies ==
    {None, <<>>,
     <<"<","p",">","S","G","8","0"," ","1","2","3"," ","A","C","M","E","<","/","p",">">>,
     <<"S","G","8","1"," ","4","5","6","7"," ","X","<","b","r",">","S","G","8","2"," ","8","9","0"," ","Y">>,
     Html_Example}

InitRows ==
    /\ GlobalsAtLoad
    /\ pc = "call"
    /\ \E Body \in Bodies, HTMLBody \in HTMLBodies :
          frame = [fn |-> "extract_rows_from_email",
                   msg |-> [Body |-> Body, HTMLBody |-> HTMLBody],
                   ret |-> None]

CallExtractRows ==
    /\ pc = "call"
    /\ frame.fn = "extract_rows_from_email"
    /\ frame' = [frame EXCEPT !.ret = extract_rows_from_email(frame.msg)]
    /\ pc' = "done"
    /\ UNCHANGED <<DEFAULT_SUBJECT_KEYWORDS, DEFAULT_SUBJECT_PHRASES>>

NextRows == CallExtractRows

SpecRows == InitRows /\ [][NextRows]_vars

(***************************************************************************)
(* Claims about extract_rows_from_email                                     *)
(***************************************************************************)

RowsCallDone == pc = "done" /\ frame.fn = "extract_rows_from_email"

\* The plain-text body without the whitespace around it; empty when absent.
TrimmedBody ==
    IF frame.msg.Body = None THEN <<>>
    ELSE TrimRight(TrimLeft(frame.msg.Body, Whitespace), Whitespace)

\* The records of the normalized HTML body; the HTML body counts as empty when absent.
RecordsOfHTMLBody ==
    extract_triplets_from_text(
        html_to_text(IF frame.msg.HTMLBody = None THEN <<>> ELSE frame.msg.HTMLBody))

\* C11: when the trimmed plain-text body has at least 5 characters the records
\* are those of that body alone, whatever the HTML body holds; otherwise (body
\* absent, empty or shorter than 5 characters) the records are those of the
\* normalized HTML body alone.
C11_BodyFirstHtmlFallback ==
    RowsCallDone =>
        IF Len(TrimmedBody) >= 5
        THEN frame.ret = extract_triplets_from_text(TrimmedBody)
        ELSE frame.ret = RecordsOfHTMLBody

\* A body of 4 characters with whitespace around it (5 or more before trimming)
\* is answered from the HTML body, which holds records.
C11_Witness ==
    /\ RowsCallDone
    /\ frame.msg.Body # None
    /\ Len(frame.msg.Body) >= 5
    /\ Len(TrimmedBody) = 4
    /\ frame.ret # <<>>
    /\ frame.ret = RecordsOfHTMLBody

\* The call went to the fallback of lines 263-267 with the example markup: ret is
\* extract_triplets_from_text(html_to_text(Html_Example)).
ExampleNormalizedAndExtracted ==
    /\ RowsCallDone
    /\ frame.msg.Body = None
    /\ frame.msg.HTMLBody = Html_Example

\* C16: for <p>SG12 999AAA ABC Co</p><br>SG13 1000 XYZ Inc, extraction from the
\* output of html_to_text gives exactly ("SG12","999AAA","ABC Co") and then
\* ("SG13","1000","XYZ Inc").
C16_ExampleTwoRecords ==
    ExampleNormalizedAndExtracted =>
        frame.ret = << << <<"S","G","1","2">>, <<"9","9","9","A","A","A">>,
                          <<"A","B","C"," ","C","o">> >>,
                       << <<"S","G","1","3">>, <<"1","0","0","0">>,
                          <<"X","Y","Z"," ","I","n","c">> >> >>

\* The example has been normalized and two records extracted from it.
C16_Witness ==
    /\ ExampleNormalizedAndExtracted
    /\ Len(frame.ret) = 2

\* The minute at which the scan starts (datetime.now() at line 180) and the
\* largest number of messages of the inbox.
MaxMinute == 2
MaxInbox == 2

Now == MaxMinute

Subject_Invoice12 == <<"i","n","v","o","i","c","e"," ","1","2">>

Subject_Vendor == <<"v","e","n","d","o","r">>

Body_Record == <<"S","G","7","7"," ","1","2","3"," ","A","C","M","E">>

HTMLBody_Record ==
    <<"<","p",">","S","G","8","0"," ","1","2","3"," ","A","C","M","E","<","/","p",">">>

\* A message of the mail store.  received is the receipt minute Outlook sorts and
\* restricts by; ReceivedTime is what the COM property gives Python: a datetime, or
\* a value of another type.
Messages ==
    [Subject : {Subject_Invoice12, Subject_Vendor},
     received : {0, MaxMinute},
     ReceivedTime : {"datetime", "other"},
     Body : {Body_Record, None},
     HTMLBody : {HTMLBody_Record}]

\* The caller's keyword and phrase lists.
Configurations ==
    { [subject_keywords |-> << <<"i","n","v","o","i","c","e">> >>, subject_phrases |-> <<>>],
      [subject_keywords |-> INITIAL_SUBJECT_KEYWORDS, subject_phrases |-> INITIAL_SUBJECT_PHRASES] }

Init ==
    /\ GlobalsAtLoad
    /\ pc = "start"
    /\ \E items \in SeqsUpTo(Messages, MaxInbox), cfg \in Configurations,
          min_subject_keyword_hits \in 1..2 :
            frame = [fn |-> "get_esker_vendor_updates_df",
                     minutes_back |-> 1,
                     min_subject_keyword_hits |-> min_subject_keyword_hits,
                     subject_keywords |-> cfg.subject_keywords,
                     subject_phrases |-> cfg.subject_phrases,
                     items |-> items,
                     inbox |-> None,
                     cutoff_ts |-> 0,
                     collection |-> <<>>,
                     mode |-> "GetNext",
                     pos |-> 1,
                     scanned |-> <<>>,
                     yielded |-> <<>>,
                     msg_count |-> 0,
                     all_rows |-> <<>>,
                     ret |-> None]

Running(at) == pc = at /\ frame.fn = "get_esker_vendor_updates_df"

\* Lines 301-303: the module globals are rebound to copies of the arguments.
Enter ==
    /\ Running("start")
    /\ DEFAULT_SUBJECT_KEYWORDS' = frame.subject_keywords
    /\ DEFAULT_SUBJECT_PHRASES' = frame.subject_phrases
    /\ pc' = "init_outlook"
    /\ UNCHANGED frame

\* Line 308, init_outlook returning: with the inbox folder, or with None for it
\* (lines 52-58).
InitOutlookReturns ==
    /\ Running("init_outlook")
    /\ \E inbox \in {Inbox, None} : frame' = [frame EXCEPT !.inbox = inbox]
    /\ pc' = "find"
    /\ UNCHANGED <<DEFAULT_SUBJECT_KEYWORDS, DEFAULT_SUBJECT_PHRASES>>

\* Line 308, init_outlook raising RuntimeError (lines 72-77).
InitOutlookRaises ==
    /\ Running("init_outlook")
    /\ pc' = "raised"
    /\ UNCHANGED <<DEFAULT_SUBJECT_KEYWORDS, DEFAULT_SUBJECT_PHRASES, frame>>

\* Lines 169-173: no inbox was given and GetDefaultFolder raises; the generator ends.
GetDefaultFolderRaises ==
    /\ Running("find")
    /\ frame.inbox = None
    /\ pc' = "build"
    /\ UNCHANGED <<DEFAULT_SUBJECT_KEYWORDS, DEFAULT_SUBJECT_PHRASES, frame>>

\* The positions 1..n ordered by receipt minute, newest first, equal minutes in
\* their order.
RECURSIVE NewestFirst(_, _)
NewestFirst(items, left) ==
    IF left = {} THEN <<>>
    ELSE LET k == CHOOSE k \in left :
                    \A j \in left :
                        \/ items[j].received < items[k].received
                        \/ (items[j].received = items[k].received /\ k <= j)
         IN  <<k>> \o NewestFirst(items, left \ {k})

\* The elements of a sequence of positions whose message satisfies the restriction
\* [ReceivedTime] >= cutoff.
RECURSIVE Restrict(_, _, _)
Restrict(items, order, cutoff) ==
    IF order = <<>> THEN <<>>
    ELSE IF items[Head(order)].received >= cutoff
         THEN <<Head(order)>> \o Restrict(items, Tail(order), cutoff)
         ELSE Restrict(items, Tail(order), cutoff)

\* Lines 174-190: the items are sorted newest first unless Sort raises, the cutoff
\* is computed, and the collection is the restricted one unless Restrict raises.
BeginScan ==
    /\ Running("find")
    /\ \E sort_ok \in BOOLEAN, restrict_ok \in BOOLEAN :
          LET n == Len(frame.items)
              order == IF sort_ok THEN NewestFirst(frame.items, 1..n) ELSE [k \in 1..n |-> k]
              cutoff == Now - frame.minutes_back
          IN  frame' = [frame EXCEPT
                          !.inbox = Inbox,
                          !.cutoff_ts = cutoff,
                          !.collection = IF restrict_ok THEN Restrict(frame.items, order, cutoff)
                                         ELSE order,
                          !.mode = "GetNext",
                          !.pos = 1]
    /\ pc' = "scan"
    /\ UNCHANGED <<DEFAULT_SUBJECT_KEYWORDS, DEFAULT_SUBJECT_PHRASES>>

\* Lines 212-242: a receipt time that is a datetime is compared with the cutoff;
\* for a value of another type received_py stays None and nothing is compared.
BeforeCutoff(msg, cutoff_ts) ==
    msg.ReceivedTime = "datetime" /\ msg.received < cutoff_ts

\* Line 245: subject_matches is called with the subject and min_keyword_hits only;
\* keywords and phrases take the function's defaults.
SubjectSelected(msg, min_keyword_hits) ==
    subject_matches(OrEmpty(msg.Subject), subject_matches_default_keywords,
                    subject_matches_default_phrases, min_keyword_hits)

\* One turn of the loops of lines 209-253 and 312-324: the enumerator gives the
\* next message; it is dropped when older than the cutoff, else its subject is
\* tested and a matching message is yielded, counted, and its rows collected.
ScanMessage ==
    /\ Running("scan")
    /\ frame.pos <= Len(frame.collection)
    /\ LET k == frame.collection[frame.pos]
           msg == frame.items[k]
       IN  frame' =
             IF BeforeCutoff(msg, frame.cutoff_ts)
             THEN [frame EXCEPT !.pos = @ + 1]
             ELSE IF SubjectSelected(msg, frame.min_subject_keyword_hits)
             THEN [frame EXCEPT !.pos = @ + 1,
                                !.scanned = Append(@, k),
                                !.yielded = Append(@, k),
                                !.msg_count = @ + 1,
                                !.all_rows = @ \o extract_rows_from_email(msg)]
             ELSE [frame EXCEPT !.pos = @ + 1, !.scanned = Append(@, k)]
    /\ UNCHANGED <<DEFAULT_SUBJECT_KEYWORDS, DEFAULT_SUBJECT_PHRASES, pc>>

\* Lines 195-204: GetFirst or GetNext raises; the enumerator falls back to Python
\* iteration of the collection, which starts at its first item.
GetNextRaises ==
    /\ Running("scan")
    /\ frame.mode = "GetNext"
    /\ frame' = [frame EXCEPT !.mode = "iter", !.pos = 1]
    /\ UNCHANGED <<DEFAULT_SUBJECT_KEYWORDS, DEFAULT_SUBJECT_PHRASES, pc>>

\* Lines 205-206: the iteration raises too; the enumerator ends.
IterationRaises ==
    /\ Running("scan")
    /\ frame.mode = "iter"
    /\ pc' = "build"
    /\ UNCHANGED <<DEFAULT_SUBJECT_KEYWORDS, DEFAULT_SUBJECT_PHRASES, frame>>

\* The enumerator is exhausted.
ScanEnds ==
    /\ Running("scan")
    /\ frame.pos > Len(frame.collection)
    /\ pc' = "build"
    /\ UNCHANGED <<DEFAULT_SUBJECT_KEYWORDS, DEFAULT_SUBJECT_PHRASES, frame>>

\* Lines 326-336.
BuildDataframe ==
    /\ Running("build")
    /\ frame' = [frame EXCEPT !.ret = build_dataframe(frame.all_rows)]
    /\ pc' = "done"
    /\ UNCHANGED <<DEFAULT_SUBJECT_KEYWORDS, DEFAULT_SUBJECT_PHRASES>>

Next ==
    \/ Enter
    \/ InitOutlookReturns
    \/ InitOutlookRaises
    \/ GetDefaultFolderRaises
    \/ BeginScan
    \/ ScanMessage
    \/ GetNextRaises
    \/ IterationRaises
    \/ ScanEnds
    \/ BuildDataframe

Spec == Init /\ [][Next]_vars

(***************************************************************************)
(* Claims about get_esker_vendor_updates_df                                 *)
(***************************************************************************)

\* The subject matches under the given keywords, phrases and threshold.
MatchesUnder(subject, keywords, phrases, min_hits) ==
    \/ \E k \in 1..Len(phrases) : OccursIgnoringCase(phrases[k], subject)
    \/ Cardinality({kw \in {keywords[k] : k \in 1..Len(keywords)} :
                        OccursIgnoringCase(kw, subject)}) >= min_hits

\* C1: a scanned message is selected exactly when its subject matches under the
\* subject_keywords and subject_phrases the caller supplied (with the supplied
\* min_subject_keyword_hits).
C1_SelectedUnderSuppliedLists ==
    (frame.fn = "get_esker_vendor_updates_df" /\ pc \in {"scan", "build", "done"}) =>
        \A j \in 1..Len(frame.scanned) :
            LET k == frame.scanned[j]
            IN  (\E i \in 1..Len(frame.yielded) : frame.yielded[i] = k)
                    <=> MatchesUnder(OrEmpty(frame.items[k].Subject), frame.subject_keywords,
                                     frame.subject_phrases, frame.min_subject_keyword_hits)

InScan == frame.fn = "get_esker_vendor_updates_df" /\ pc \in {"scan", "build", "done"}

\* C12: every message yielded by the scan was received at or after the cutoff
\* computed when the scan began, whether or not Restrict succeeded and whatever
\* the type of the message's ReceivedTime.
C12_YieldedWithinWindow ==
    InScan =>
        \A j \in 1..Len(frame.yielded) :
            frame.items[frame.yielded[j]].received >= frame.cutoff_ts

\* C19: in one scan each message of the enumerated collection is yielded at most
\* once, also after GetFirst/GetNext failed and the enumerator fell back to plain
\* iteration, and the message count never exceeds the size of the collection.
C19_YieldedAtMostOnce ==
    InScan =>
        /\ \A i, j \in 1..Len(frame.yielded) :
               i # j => frame.yielded[i] # frame.yielded[j]
        /\ frame.msg_count <= Len(frame.collection)

(***************************************************************************)
(* 1) Outlook initialization: init_outlook, lines 23-77                     *)
(***************************************************************************)

Outlook == <<"Outlook.Application">>

MAPI == <<"MAPI">>

Account_Email == <<"j","o","h","n","@","x">>

\* The values of account_email: None, the empty string, an address.
AccountEmails == {None, <<>>, Account_Email}

\* How a call into COM or the operating system ends: it returns, raises
\* pywintypes.com_error, or raises another exception.
Outcomes == {"returns", "com_error", "Exception"}

InitInitOutlook ==
    /\ GlobalsAtLoad
    /\ pc = "CoInitialize"
    /\ \E account_email \in AccountEmails, ensure_running \in BOOLEAN :
          frame = [fn |-> "init_outlook",
                   account_email |-> account_email,
                   ensure_running |-> ensure_running,
                   CoInitialize |-> 0,
                   CoUninitialize |-> 0,
                   outlook |-> None,
                   mapi |-> None,
                   inbox |-> None,
                   exc |-> "none",
                   ret |-> None]

At(line) == pc = line /\ frame.fn = "init_outlook"

\* A step of init_outlook that leaves the module globals alone.
Step(f, to) ==
    /\ frame' = f
    /\ pc' = to
    /\ UNCHANGED <<DEFAULT_SUBJECT_KEYWORDS, DEFAULT_SUBJECT_PHRASES>>

\* Line 32.
CoInitialize ==
    /\ At("CoInitialize")
    /\ Step([frame EXCEPT !.CoInitialize = @ + 1], "GetActiveObject")

\* Lines 34-37: a com_error is caught by the inner handler; another exception
\* matches neither the inner handler nor the one at line 60 and leaves the function.
GetActiveObject ==
    /\ At("GetActiveObject")
    /\ \E outcome \in Outcomes :
          CASE outcome = "returns" -> Step([frame EXCEPT !.outlook = Outlook], "GetNamespace")
            [] outcome = "com_error" -> Step(frame, "EnsureDispatch")
            [] outcome = "Exception" -> Step([frame EXCEPT !.exc = "Exception"], "raised")

\* Line 39, inside the inner handler: a com_error reaches the handler at line 60,
\* another exception leaves the function.
EnsureDispatch ==
    /\ At("EnsureDispatch")
    /\ \E outcome \in Outcomes :
          CASE outcome = "returns" -> Step([frame EXCEPT !.outlook = Outlook], "GetNamespace")
            [] outcome = "com_error" -> Step([frame EXCEPT !.exc = "com_error"], "except")
            [] outcome = "Exception" -> Step([frame EXCEPT !.exc = "Exception"], "raised")

\* Lines 41-45.
GetNamespace ==
    /\ At("GetNamespace")
    /\ \E outcome \in Outcomes :
          CASE outcome = "returns" ->
                   Step([frame EXCEPT !.mapi = MAPI],
                        IF frame.account_email \notin {None, <<>>} THEN "Folders"
                        ELSE "GetDefaultFolder")
            [] outcome = "com_error" -> Step([frame EXCEPT !.exc = "com_error"], "except")
            [] outcome = "Exception" -> Step([frame EXCEPT !.exc = "Exception"], "raised")

\* Lines 46-52: the account's inbox; any exception leaves inbox None.
Folders ==
    /\ At("Folders")
    /\ \E outcome \in Outcomes :
          IF outcome = "returns"
          THEN Step([frame EXCEPT !.inbox = Inbox], "return")
          ELSE Step(frame, "GetDefaultFolder")

\* Lines 52-56: the default inbox; any exception leaves inbox None.
GetDefaultFolder ==
    /\ At("GetDefaultFolder")
    /\ \E outcome \in Outcomes :
          IF outcome = "returns"
          THEN Step([frame EXCEPT !.inbox = Inbox], "return")
          ELSE Step(frame, "return")

\* Lines 58 and 71.
Return ==
    /\ At("return")
    /\ Step([frame EXCEPT !.ret = <<frame.outlook, frame.mapi, frame.inbox>>], "returned")

\* Lines 60-62 and 76-77: the handler of pywintypes.com_error; without
\* ensure_running COM is uninitialized and RuntimeError raised.
ExceptComError ==
    /\ At("except")
    /\ IF frame.ensure_running
       THEN Step(frame, "Popen")
       ELSE Step([frame EXCEPT !.CoUninitialize = @ + 1, !.exc = "RuntimeError"], "raised")

\* Lines 72-74: the handler of the retry.
RetryFails == [frame EXCEPT !.CoUninitialize = @ + 1, !.exc = "RuntimeError"]

\* Lines 65-66: outlook.exe is started and given time; Popen may raise OSError.
Popen ==
    /\ At("Popen")
    /\ \E outcome \in {"returns", "Exception"} :
          IF outcome = "returns"
          THEN Step(frame, "RetryEnsureDispatch")
          ELSE Step(RetryFails, "raised")

\* Line 68.
RetryEnsureDispatch ==
    /\ At("RetryEnsureDispatch")
    /\ \E outcome \in Outcomes :
          IF outcome = "returns"
          THEN Step([frame EXCEPT !.outlook = Outlook], "RetryGetNamespace")
          ELSE Step(RetryFails, "raised")

\* Line 69.
RetryGetNamespace ==
    /\ At("RetryGetNamespace")
    /\ \E outcome \in Outcomes :
          IF outcome = "returns"
          THEN Step([frame EXCEPT !.mapi = MAPI], "RetryGetDefaultFolder")
          ELSE Step(RetryFails, "raised")

\* Line 70.
RetryGetDefaultFolder ==
    /\ At("RetryGetDefaultFolder")
    /\ \E outcome \in Outcomes :
          IF outcome = "returns"
          THEN Step([frame EXCEPT !.inbox = Inbox], "return")
          ELSE Step(RetryFails, "raised")

NextInitOutlook ==
    \/ CoInitialize
    \/ GetActiveObject
    \/ EnsureDispatch
    \/ GetNamespace
    \/ Folders
    \/ GetDefaultFolder
    \/ Return
    \/ ExceptComError
    \/ Popen
    \/ RetryEnsureDispatch
    \/ RetryGetNamespace
    \/ RetryGetDefaultFolder

SpecInitOutlook == InitInitOutlook /\ [][NextInitOutlook]_vars

(***************************************************************************)
(* Claims about init_outlook                                                *)
(***************************************************************************)

\* C13: when init_outlook has ended by raising, CoUninitialize has been called
\* exactly once after the one CoInitialize; when it has returned, CoUninitialize
\* has not been called.
C13_ComBalanced ==
    frame.fn = "init_outlook" =>
        /\ pc = "raised" => (frame.CoInitialize = 1 /\ frame.CoUninitialize = 1)
        /\ pc = "returned" => (frame.CoInitialize = 1 /\ frame.CoUninitialize = 0)

(***************************************************************************)
(* Claims about the module globals                                          *)
(***************************************************************************)

\* C14: after get_esker_vendor_updates_df has returned, the module-level default
\* keyword list and default phrase list hold the values they held before the call.
C14_GlobalsUnchangedByCall ==
    (frame.fn = "get_esker_vendor_updates_df" /\ pc = "done") =>
        /\ DEFAULT_SUBJECT_KEYWORDS = INITIAL_SUBJECT_KEYWORDS
        /\ DEFAULT_SUBJECT_PHRASES = INITIAL_SUBJECT_PHRASES

(***************************************************************************)
(* 5) The run of app.py: lines 641-676                                      *)
(***************************************************************************)

\* sep.join(parts).
RECURSIVE join(_, _)
join(sep, parts) ==
    IF parts = <<>> THEN <<>>
    ELSE IF Len(parts) = 1 THEN parts[1]
    ELSE parts[1] \o sep \o join(sep, Tail(parts))

Comma == <<",", " ">>

\* The result tables get_esker_vendor_updates_df can return: build_dataframe of the
\* rows that were collected (line 329).
ResultTables == {build_dataframe(rows) : rows \in SeqsUpTo(Triplets, MaxRows)}

\* The state when app.py reaches line 650 with the table in df_vendor_update.  The
\* table's index is 0..n-1; row i of the table is df_vendor_update[i + 1].  i is
\* not bound before the loop, shown as -1.
InitApp ==
    /\ GlobalsAtLoad
    /\ pc = "main"
    /\ \E df \in ResultTables :
          frame = [fn |-> "__main__",
                   df_vendor_update |-> df,
                   i |-> -1,
                   range |-> 0,
                   invoked |-> <<>>,
                   list_company_code |-> <<>>,
                   list_vendor_number |-> <<>>,
                   log |-> <<>>]

InMain(at) == pc = at /\ frame.fn = "__main__"

loc(df, i, column) == df[i + 1][column]

\* Lines 651-654: an empty table ends the run at exit().
Exit ==
    /\ InMain("main")
    /\ frame.df_vendor_update = <<>>
    /\ pc' = "exit"
    /\ UNCHANGED <<DEFAULT_SUBJECT_KEYWORDS, DEFAULT_SUBJECT_PHRASES, frame>>

\* Lines 656-662: the two lists are created empty and the loop begins.
BeginFor ==
    /\ InMain("main")
    /\ frame.df_vendor_update # <<>>
    /\ frame' = [frame EXCEPT !.list_company_code = <<>>, !.list_vendor_number = <<>>,
                              !.range = 0]
    /\ pc' = "for"
    /\ UNCHANGED <<DEFAULT_SUBJECT_KEYWORDS, DEFAULT_SUBJECT_PHRASES>>

\* Lines 663-666, one turn of the loop: i takes the next index and
\* automate_vendor_update (lines 574-632) is called; it reads the global i.  The
\* call returns, or one of its statements outside a try raises and ends the run.
ForRow ==
    /\ InMain("for")
    /\ frame.range < Len(frame.df_vendor_update)
    /\ frame' = [frame EXCEPT !.i = frame.range,
                              !.range = @ + 1,
                              !.invoked = Append(@, frame.range)]
    /\ \E raises \in BOOLEAN : pc' = IF raises THEN "raised" ELSE "for"
    /\ UNCHANGED <<DEFAULT_SUBJECT_KEYWORDS, DEFAULT_SUBJECT_PHRASES>>

\* Lines 667-668: the loop is over.
EndFor ==
    /\ InMain("for")
    /\ frame.range = Len(frame.df_vendor_update)
    /\ pc' = "append"
    /\ UNCHANGED <<DEFAULT_SUBJECT_KEYWORDS, DEFAULT_SUBJECT_PHRASES, frame>>

\* Lines 670-671, after the loop: the row at index i is appended to the two lists.
AppendRow ==
    /\ InMain("append")
    /\ frame' = [frame EXCEPT
                    !.list_company_code = Append(@, loc(frame.df_vendor_update, frame.i, 1)),
                    !.list_vendor_number = Append(@, loc(frame.df_vendor_update, frame.i, 2))]
    /\ pc' = "log"
    /\ UNCHANGED <<DEFAULT_SUBJECT_KEYWORDS, DEFAULT_SUBJECT_PHRASES>>

\* Lines 673-675: the two lists are written to the log, joined by ", ".
WriteLog ==
    /\ InMain("log")
    /\ frame' = [frame EXCEPT
                    !.log = <<join(Comma, frame.list_company_code),
                              join(Comma, frame.list_vendor_number)>>]
    /\ pc' = "done"
    /\ UNCHANGED <<DEFAULT_SUBJECT_KEYWORDS, DEFAULT_SUBJECT_PHRASES>>

NextApp ==
    \/ Exit
    \/ BeginFor
    \/ ForRow
    \/ EndFor
    \/ AppendRow
    \/ WriteLog

SpecApp == InitApp /\ [][NextApp]_vars

(***************************************************************************)
(* Claims about the run of app.py                                           *)
(***************************************************************************)

\* C21: when a run over a table of n rows has finished, automate_vendor_update
\* was invoked once per row in the order 0..n-1, and the log's "Updated entities"
\* and "Updated vendor" lists hold the company code and the vendor number of each
\* of the n rows, in that order.
C21_EveryRowProcessedAndLogged ==
    InMain("done") =>
        LET df == frame.df_vendor_update
            n == Len(df)
        IN  /\ frame.invoked = [k \in 1..n |-> k - 1]
            /\ frame.log[1] = join(Comma, [k \in 1..n |-> df[k][1]])
            /\ frame.log[2] = join(Comma, [k \in 1..n |-> df[k][2]])

====
